---------------------------- MODULE Spec2Model ----------------------------
(***************************************************************************)
(* topollama (src/src/index.js): the polling cycle of the dashboard.       *)
(*                                                                         *)
(* JavaScript strings are TLA+ strings; TLC evaluates Len, \o and SubSeq   *)
(* on them, so substring, trim, indexOf, includes, split and the two       *)
(* regular expressions of the source are computed character by character.  *)
(* One action is one event-loop callback together with the promise         *)
(* continuations (microtasks) it releases.                                 *)
(***************************************************************************)
EXTENDS Integers, Sequences, FiniteSets, TLC

(***************************************************************************)
(* Bounds of the model.                                                    *)
(***************************************************************************)
\* updateAll invocations in one run (the startup call included)
MaxCycles == 2
\* seconds of wall-clock time a run covers, counted by the interval timer
MaxTime == 2
\* injected collaborator faults (throwing OS / display calls) in one run
MaxFaults == 1
\* cycles of a run in which every cycle ends before the next tick
MaxSequentialCycles == 100
\* seconds of wall-clock time the timed run covers
MaxLiveTime == 6

(***************************************************************************)
(* Program constants.                                                      *)
(***************************************************************************)
historyLength == 60
IntervalSec == 2
\* index.js 171: exec('ollama ps', { timeout: 4000 })
ExecTimeoutSec == 4
NameWidth == 28
DigestWidth == 12
\* README.md, "How It Works": the charts show the last 100 data points
documentedLength == 100

(***************************************************************************)
(* State.                                                                  *)
(***************************************************************************)
VARIABLES
  currentModelData,   \* index.js 72
  cpuHistoryData,     \* index.js 74-79: [x |-> labels, y |-> values]
  gpuHistoryData,     \* index.js 81-86
  memoryHistoryData,  \* index.js 88-93
  tableData,          \* the rows last given to runningModelsList.setData
  cycles,             \* the invocations of updateAll, in the order they were triggered
  now,                \* wall-clock time in seconds since startup, as of the
                      \* latest firing of updateInterval
  exited,             \* process.exit was called
  quitKey,            \* escape, q or Ctrl-C was pressed
  timerQueue,         \* the cycles whose 100 ms sampler timer is pending, oldest
                      \* first: timers of one duration fire in the order they were set
  faults,             \* collaborator faults injected so far
  env,                \* the environment of this run, one of Envs
  pushLog,            \* the cycles whose history push ran, in push order
  seriesLog           \* every shift / push pair made on a series, in the order of
                      \* execution: <<cycle, series>>

vars == <<currentModelData, cpuHistoryData, gpuHistoryData, memoryHistoryData,
          tableData, cycles, now, exited, quitKey, faults, env, pushLog, seriesLog,
                                timerQueue>>

(***************************************************************************)
(* JavaScript string primitives.                                           *)
(***************************************************************************)
Min(a, b) == IF a <= b THEN a ELSE b
Max(a, b) == IF a >= b THEN a ELSE b

\* s[i] for a 0-based index i, "" outside the string
charAt(s, i) == IF i >= 0 /\ i < Len(s) THEN SubSeq(s, i + 1, i + 1) ELSE ""

\* String.prototype.substring(a, b): both ends clamped to [0, length], swapped
\* when a > b; 0-based, b exclusive
substring(s, a, b) ==
  LET ca == Max(0, Min(a, Len(s)))
      cb == Max(0, Min(b, Len(s)))
      lo == Min(ca, cb)
      hi == Max(ca, cb)
  IN  SubSeq(s, lo + 1, hi)

isSpace(c) == c \in {" ", "\t", "\n", "\r"}
isDigit(c) == c \in {"0", "1", "2", "3", "4", "5", "6", "7", "8", "9"}

\* String.prototype.trim()
trim(s) ==
  LET keep == {i \in 0..(Len(s) - 1) : ~isSpace(charAt(s, i))}
  IN  IF keep = {} THEN ""
      ELSE LET first == CHOOSE i \in keep : \A j \in keep : i <= j
               last  == CHOOSE i \in keep : \A j \in keep : i >= j
           IN  substring(s, first, last + 1)

\* does `label` occur in s at 0-based position i
startsAt(s, label, i) ==
  /\ i >= 0
  /\ i + Len(label) <= Len(s)
  /\ SubSeq(s, i + 1, i + Len(label)) = label

\* String.prototype.indexOf(label): first position, -1 when absent
indexOf(s, label) ==
  LET hits == {i \in 0..Len(s) : startsAt(s, label, i)}
  IN  IF hits = {} THEN -1 ELSE CHOOSE i \in hits : \A j \in hits : i <= j

\* String.prototype.includes(label)
includes(s, label) == indexOf(s, label) # -1

\* String.prototype.toLowerCase() is needed only for tests against fixed
\* lower-case needles; the inputs of the model are lower case there.

\* String.prototype.split('\n')
RECURSIVE splitLines(_)
splitLines(s) ==
  LET p == indexOf(s, "\n")
  IN  IF p = -1 THEN <<s>>
      ELSE <<substring(s, 0, p)>> \o splitLines(substring(s, p + 1, Len(s)))

\* the value of a run of decimal digits: parseInt(digits, 10)
RECURSIVE parseInt(_)
parseInt(d) ==
  IF Len(d) = 0 THEN 0
  ELSE LET c == charAt(d, Len(d) - 1)
           v == CHOOSE n \in 0..9 : charAt("0123456789", n) = c
       IN  10 * parseInt(substring(d, 0, Len(d) - 1)) + v

\* end (exclusive) of the maximal run of characters satisfying digit/space
\* that starts at position i
RECURSIVE digitRunEnd(_, _)
digitRunEnd(s, i) == IF isDigit(charAt(s, i)) THEN digitRunEnd(s, i + 1) ELSE i
RECURSIVE spaceRunEnd(_, _)
spaceRunEnd(s, i) == IF isSpace(charAt(s, i)) THEN spaceRunEnd(s, i + 1) ELSE i

\* processor.match(/(\d+)%\s*UNIT/): the first capture group of the leftmost
\* match, "" standing for a null match.  unit = "" is /(\d+)%/.
matchPercent(s, unit) ==
  LET ok(i) == LET e == digitRunEnd(s, i)
               IN  /\ e > i
                   /\ charAt(s, e) = "%"
                   /\ startsAt(s, unit, spaceRunEnd(s, e + 1))
      hits == {i \in 0..(Len(s) - 1) : ok(i)}
  IN  IF hits = {} THEN ""
      ELSE LET i == CHOOSE k \in hits : \A j \in hits : k <= j
           IN  substring(s, i, digitRunEnd(s, i))

(***************************************************************************)
(* Numbers.  A sample of a history series is a JavaScript number; it is    *)
(* kept exactly, as a reduced fraction <<numerator, denominator>>.         *)
(***************************************************************************)
RECURSIVE GCD(_, _)
GCD(a, b) == IF b = 0 THEN a ELSE GCD(b, a % b)

Rat(n, d) == LET g == GCD(n, d) IN <<n \div g, d \div g>>

Zero == Rat(0, 1)

\* decimal text of a natural number
RECURSIVE toString(_)
toString(n) ==
  IF n < 10 THEN charAt("0123456789", n)
  ELSE toString(n \div 10) \o charAt("0123456789", n % 10)

(***************************************************************************)
(* formatSize (index.js 98-105).  A byte count is a JavaScript number that *)
(* may exceed 32 bits: it is kept as its base-1024 digits, the most        *)
(* significant first and non-zero, <<0>> for zero and <<>> for a null-like *)
(* argument (null, undefined, NaN).  For a count of i + 1 digits           *)
(* floor(log(bytes) / log(1024)) is i; the double-precision quotient has   *)
(* that floor for every count the model uses.                              *)
(***************************************************************************)
sizes == <<"B", "KB", "MB", "GB", "TB">>

\* the digits of a natural number below 2^31
RECURSIVE bytesOf(_)
bytesOf(n) == IF n < 1024 THEN <<n>> ELSE bytesOf(n \div 1024) \o <<n % 1024>>

\* Math.floor(Math.log(bytes) / Math.log(1024))
log1024(bytes) == Len(bytes) - 1

\* 10 * bytes, as digits with the least significant first; k counts down the
\* digits of bytes still to multiply
RECURSIVE tenTimes(_, _, _)
tenTimes(bytes, k, carry) ==
  IF k = 0 THEN <<carry>>
  ELSE LET t == 10 * bytes[k] + carry
       IN  <<t % 1024>> \o tenTimes(bytes, k - 1, t \div 1024)

\* (bytes / 1024 ** i).toFixed(1) for i = log1024(bytes) >= 1: the quotient is
\* exact in binary, and toFixed rounds its tenths to the nearest, a half up
toFixed1(bytes, i) ==
  LET t == tenTimes(bytes, Len(bytes), 0)
      \* t[i + 1] and t[i + 2] are the integer part of 10 * bytes / 1024^i,
      \* t[i] is the first digit of its fraction
      tenths == t[i + 2] * 1024 + t[i + 1] + (IF t[i] >= 512 THEN 1 ELSE 0)
  IN  toString(tenths \div 10) \o "." \o toString(tenths % 10)

formatSize(bytes) ==
  IF bytes = <<>> THEN "-"
  ELSE IF bytes = <<0>> THEN "0 B"
  ELSE LET i == log1024(bytes)
       IN  IF i = 0 THEN toString(bytes[1]) \o " " \o sizes[i + 1]
           ELSE toFixed1(bytes, i) \o " "
                  \o (IF i + 1 \in DOMAIN sizes THEN sizes[i + 1] ELSE "undefined")

(***************************************************************************)
(* getCpuUsage (index.js 107-123).  A snapshot of os.cpus() is a sequence  *)
(* of per-core times records; the result is the percentage, or "throw"     *)
(* when reading endMeasure[i] of a missing core raises a TypeError.        *)
(***************************************************************************)
measure(cpus) ==
  [i \in DOMAIN cpus |->
     [idle  |-> cpus[i].idle,
      total |-> cpus[i].user + cpus[i].nice + cpus[i].sys + cpus[i].idle + cpus[i].irq]]

RECURSIVE sumIdle(_, _, _)
\* sum over cores i..n of idlePercent[i], as the numerator over denominator
\* `den`, the product of the non-zero total differences
sumIdle(idleDiff, totalDiff, i) ==
  IF i > Len(idleDiff) THEN <<0, 1>>
  ELSE LET rest == sumIdle(idleDiff, totalDiff, i + 1)
       IN  IF totalDiff[i] # 0
           THEN <<idleDiff[i] * rest[2] + rest[1] * totalDiff[i], totalDiff[i] * rest[2]>>
           ELSE rest

getCpuUsage(startCpus, endCpus) ==
  LET startMeasure == measure(startCpus)
      endMeasure   == measure(endCpus)
  IN  IF Len(endMeasure) < Len(startMeasure) THEN "throw"
      ELSE LET idleDifference  == [i \in DOMAIN startMeasure |->
                                     endMeasure[i].idle - startMeasure[i].idle]
               totalDifference == [i \in DOMAIN startMeasure |->
                                     endMeasure[i].total - startMeasure[i].total]
               sum == sumIdle(idleDifference, totalDifference, 1)
               n   == Len(startMeasure)
               \* avgIdlePercent = sum / n, cpuPercent = (1 - avg) * 100,
               \* rounded to one decimal by toFixed(1)
               den == IF n > 0 THEN sum[2] * n ELSE 1
               num == IF n > 0 THEN sum[1] ELSE 0
               tenths == (2 * 1000 * (den - num) + den) \div (2 * den)
           IN  Rat(tenths, 10)

(***************************************************************************)
(* getSystemInfo (index.js 125-166).  cpuInfo is getCpuUsage's result,     *)
(* mem the os.totalmem() / os.freemem() readings, models the value of      *)
(* currentModelData when the function resumes after the sampler's delay.   *)
(***************************************************************************)
gpuOf(model) ==
  LET m == matchPercent(model.gpu, "")
  IN  IF m = "" THEN 0 ELSE parseInt(m)

RECURSIVE sumSeq(_)
sumSeq(s) == IF Len(s) = 0 THEN 0 ELSE Head(s) + sumSeq(Tail(s))

gpuModelsOf(models) ==
  SelectSeq(models, LAMBDA model : model.gpu # "" /\ model.gpu # "0%" /\ model.gpu # "N/A")

gpuUsagePercent(models) ==
  LET gpuModels == gpuModelsOf(models)
      gpuPercentages == [i \in DOMAIN gpuModels |-> gpuOf(gpuModels[i])]
  IN  IF Len(models) > 0 /\ Len(gpuModels) > 0
      THEN Rat(sumSeq(gpuPercentages), Len(gpuPercentages))
      ELSE Zero

\* Math.round((totalMem - freeMem) / (1024 * 1024))
usedMemInMB(mem) == (2 * (mem.total - mem.free) + 1024 * 1024) \div (2 * 1024 * 1024)

\* getSystemInfo whose catch block reports a CPU value of 100
getSystemInfoBusyOnError(cpuInfo, mem, models) ==
  IF cpuInfo = "throw"
  THEN [cpu |-> Rat(100, 1), memory |-> Zero, gpu |-> Zero]
  ELSE [cpu |-> cpuInfo, memory |-> Rat(usedMemInMB(mem), 1), gpu |-> gpuUsagePercent(models)]

getSystemInfo(cpuInfo, mem, models) ==
  IF cpuInfo = "throw"
  THEN [cpu |-> Zero, memory |-> Zero, gpu |-> Zero]
  ELSE [cpu |-> cpuInfo, memory |-> Rat(usedMemInMB(mem), 1), gpu |-> gpuUsagePercent(models)]

(***************************************************************************)
(* getOllamaPsInfo (index.js 169-254).  execResult is what exec hands to   *)
(* the callback: error ("none" when the command succeeded) and stdout.     *)
(* The mapping modelData is a function from model names.                   *)
(***************************************************************************)
emptyModelData == [name \in {} |-> ""]

\* index.js 225-237: CPU / GPU usage of a processor descriptor
processorUsage(processor) ==
  IF includes(processor, "GPU")
  THEN LET gpuMatch == matchPercent(processor, "GPU")
       IN  [cpu |-> "0%", gpu |-> IF gpuMatch # "" THEN gpuMatch \o "%" ELSE "100%"]
  ELSE IF includes(processor, "CPU")
  THEN LET cpuMatch == matchPercent(processor, "CPU")
       IN  [cpu |-> IF cpuMatch # "" THEN cpuMatch \o "%" ELSE "100%", gpu |-> "0%"]
  ELSE [cpu |-> "0%", gpu |-> "0%"]

\* processRows with the name cut at the SIZE column instead of the ID column
RECURSIVE processRowsNameToSize(_, _, _, _)
processRowsNameToSize(lines, pos, i, modelData) ==
  IF i > Len(lines) THEN modelData
  ELSE LET line == lines[i]
           name == trim(substring(line, pos.namePos, pos.memPos))
           mem  == trim(substring(line, pos.memPos, pos.processorPos))
           processor == trim(substring(line, pos.processorPos, pos.untilPos))
           usage == processorUsage(processor)
           entry == [committedMem |-> mem, cpu |-> usage.cpu, gpu |-> usage.gpu]
       IN  IF trim(line) = "" \/ name = ""
           THEN processRowsNameToSize(lines, pos, i + 1, modelData)
           ELSE processRowsNameToSize(lines, pos, i + 1,
                  [n \in DOMAIN modelData \cup {name} |->
                     IF n = name THEN entry ELSE modelData[n]])

\* index.js 215-249: the data rows, from 1-based line i on
RECURSIVE processRows(_, _, _, _)
processRows(lines, pos, i, modelData) ==
  IF i > Len(lines) THEN modelData
  ELSE LET line == lines[i]
           name == trim(substring(line, pos.namePos, pos.idPos))
           mem  == trim(substring(line, pos.memPos, pos.processorPos))
           processor == trim(substring(line, pos.processorPos, pos.untilPos))
           usage == processorUsage(processor)
           entry == [committedMem |-> mem, cpu |-> usage.cpu, gpu |-> usage.gpu]
       IN  IF trim(line) = "" \/ name = ""
           THEN processRows(lines, pos, i + 1, modelData)
           ELSE processRows(lines, pos, i + 1,
                  [n \in DOMAIN modelData \cup {name} |->
                     IF n = name THEN entry ELSE modelData[n]])

\* the position of every header label
columnsOf(headerLine) ==
  [namePos      |-> indexOf(headerLine, "NAME"),
   idPos        |-> indexOf(headerLine, "ID"),
   memPos       |-> indexOf(headerLine, "SIZE"),
   processorPos |-> indexOf(headerLine, "PROCESSOR"),
   untilPos     |-> indexOf(headerLine, "UNTIL")]

\* getOllamaPsInfo parsing stdout whether or not exec reported an error
getOllamaPsInfoIgnoringError(execResult) ==
  LET lines == splitLines(trim(execResult.stdout))
  IN  IF Len(lines) < 2 THEN emptyModelData
      ELSE IF \E label \in {"NAME", "ID", "SIZE", "PROCESSOR", "UNTIL"} :
                ~includes(lines[1], label)
      THEN emptyModelData
      ELSE processRows(lines, columnsOf(lines[1]), 2, emptyModelData)

getOllamaPsInfo(execResult) ==
  IF execResult.error # "none" THEN emptyModelData
  ELSE LET lines == splitLines(trim(execResult.stdout))
       IN  IF Len(lines) < 2 THEN emptyModelData
           ELSE LET headerLine == lines[1]
                IN  IF \/ ~includes(headerLine, "NAME") \/ ~includes(headerLine, "ID")
                       \/ ~includes(headerLine, "SIZE") \/ ~includes(headerLine, "PROCESSOR")
                       \/ ~includes(headerLine, "UNTIL")
                    THEN emptyModelData
                    ELSE processRows(lines, columnsOf(headerLine), 2, emptyModelData)

(***************************************************************************)
(* getRunningModels (index.js 257-293).  listResponse is how ollama.list() *)
(* settled: kind "reject" (the .catch handler substitutes {models: []}),   *)
(* "malformed" (models is not an array) or "ok".                           *)
(***************************************************************************)
\* mergeModel looking the model up under its truncated display name
mergeModelByDisplayName(model, psInfo) ==
  LET short     == substring(model.name, 0, NameWidth)
      isRunning == short \in DOMAIN psInfo
  IN  [name      |-> short,
       id        |-> substring(model.digest, 0, DigestWidth),
       diskSize  |-> formatSize(model.size),
       usedMem   |-> IF isRunning THEN psInfo[short].committedMem ELSE "0 B",
       cpu       |-> IF isRunning THEN psInfo[short].cpu ELSE "0%",
       gpu       |-> IF isRunning THEN psInfo[short].gpu ELSE "0%",
       isRunning |-> isRunning]

mergeModel(model, psInfo) ==
  LET isRunning == model.name \in DOMAIN psInfo
  IN  [name      |-> substring(model.name, 0, NameWidth),
       id        |-> substring(model.digest, 0, DigestWidth),
       diskSize  |-> formatSize(model.size),
       usedMem   |-> IF isRunning THEN psInfo[model.name].committedMem ELSE "0 B",
       cpu       |-> IF isRunning THEN psInfo[model.name].cpu ELSE "0%",
       gpu       |-> IF isRunning THEN psInfo[model.name].gpu ELSE "0%",
       isRunning |-> isRunning]

\* getRunningModels keeping the record of a model that was running in the
\* list of the cycle before
getRunningModelsSticky(listResponse, psInfo) ==
  LET fresh == IF listResponse.kind # "ok" THEN <<>>
               ELSE [i \in DOMAIN listResponse.models |->
                       mergeModel(listResponse.models[i], psInfo)]
      was(i) == {j \in DOMAIN currentModelData :
                   currentModelData[j].name = fresh[i].name /\ currentModelData[j].isRunning}
  IN  [i \in DOMAIN fresh |->
         IF was(i) # {} THEN currentModelData[CHOOSE j \in was(i) : TRUE] ELSE fresh[i]]

getRunningModels(listResponse, psInfo) ==
  IF listResponse.kind = "reject" THEN <<>>
  ELSE IF listResponse.kind = "malformed" THEN <<>>
  ELSE [i \in DOMAIN listResponse.models |-> mergeModel(listResponse.models[i], psInfo)]

(***************************************************************************)
(* updateModelsList (index.js 298-318): the rows handed to the table.      *)
(***************************************************************************)
tableRows(models) ==
  IF Len(models) = 0
  THEN << <<"(No models available or running)", "", "", "", "", "">> >>
  ELSE [i \in DOMAIN models |->
          <<models[i].name, models[i].id, models[i].diskSize,
            models[i].usedMem, models[i].cpu, models[i].gpu>>]

(***************************************************************************)
(* The collaborators' answers the model draws from.                        *)
(***************************************************************************)
RECURSIVE spaces(_)
spaces(n) == IF n <= 0 THEN "" ELSE " " \o spaces(n - 1)

\* one line of `ollama ps`: every field but the last padded to its column
\* width and followed by `gap` spaces
RECURSIVE psLine(_, _, _, _)
psLine(fields, widths, gap, i) ==
  IF i = Len(fields) THEN fields[i]
  ELSE fields[i] \o spaces(widths[i] - Len(fields[i])) \o spaces(gap)
         \o psLine(fields, widths, gap, i + 1)

psLabels == <<"NAME", "ID", "SIZE", "PROCESSOR", "UNTIL">>

\* the table `ollama ps` prints: every column as wide as its widest cell
\* (the label included), two spaces apart, header and rows alike
RECURSIVE widest(_, _, _)
widest(rows, col, i) ==
  IF i > Len(rows) THEN Len(psLabels[col])
  ELSE Max(Len(rows[i][col]), widest(rows, col, i + 1))

RECURSIVE alignedRows(_, _, _)
alignedRows(rows, widths, i) ==
  IF i > Len(rows) THEN ""
  ELSE psLine(rows[i], widths, 2, 1) \o "\n" \o alignedRows(rows, widths, i + 1)

alignedTable(rows) ==
  LET widths == [col \in 1..5 |-> widest(rows, col, 1)]
  IN  psLine(psLabels, widths, 2, 1) \o "\n" \o alignedRows(rows, widths, 1)

\* a table whose cells are separated by runs of spaces without regard to the
\* header's columns: the header one space apart, the row three
looseTable(row) ==
  psLine(psLabels, <<0, 0, 0, 0, 0>>, 1, 1) \o "\n" \o psLine(row, <<0, 0, 0, 0, 0>>, 3, 1)

\* a table whose header lacks the label of column `col`
RECURSIVE without(_, _, _)
without(fields, col, i) ==
  IF i > Len(fields) THEN <<>>
  ELSE (IF i = col THEN <<>> ELSE <<fields[i]>>) \o without(fields, col, i + 1)

missingLabelTable(row, col) ==
  LET widths == [k \in 1..4 |-> Max(Len(without(psLabels, col, 1)[k]),
                                    Len(without(row, col, 1)[k]))]
  IN  psLine(without(psLabels, col, 1), widths, 2, 1) \o "\n"
        \o psLine(without(row, col, 1), widths, 2, 1) \o "\n"

fooRow  == <<"foo-model", "abc123", "4.2 GB", "100% GPU", "5m">>
barRow  == <<"bar:latest", "0123456789ab", "1.1 GB", "50% GPU", "4 minutes from now">>
cpuRow  == <<"foo-model", "abc123", "4.2 GB", "100% CPU", "5m">>
longName == "a-model-name-of-thirty-chars:v1"
longRow == <<longName, "feedfacecafe", "980 MB", "48%/52% CPU/GPU", "5m">>
bareRow == <<"bare:gpu", "0a1b2c3d4e5f", "2.0 GB", "GPU", "5m">>
halfRow == <<"half:cpu", "5f4e3d2c1b0a", "2.0 GB", "50% CPU", "5m">>
oddRow  == <<"odd:latest", "00ff00ff00ff", "1.0 GB", "unknown", "5m">>

\* the exec results: rows names the cells the table was printed from
PsCases ==
  << [error |-> "exit", rows |-> <<>>, layout |-> "none", stdout |-> ""],
     [error |-> "timeout", rows |-> <<fooRow>>, layout |-> "aligned",
      stdout |-> alignedTable(<<fooRow>>)],
     [error |-> "none", rows |-> <<>>, layout |-> "aligned", stdout |-> alignedTable(<<>>)],
     [error |-> "none", rows |-> <<fooRow>>, layout |-> "aligned",
      stdout |-> alignedTable(<<fooRow>>)],
     [error |-> "none", rows |-> <<fooRow, barRow>>, layout |-> "aligned",
      stdout |-> alignedTable(<<fooRow, barRow>>)],
     [error |-> "none", rows |-> <<cpuRow>>, layout |-> "aligned",
      stdout |-> alignedTable(<<cpuRow>>)],
     [error |-> "none", rows |-> <<longRow>>, layout |-> "aligned",
      stdout |-> alignedTable(<<longRow>>)],
     [error |-> "none", rows |-> <<fooRow>>, layout |-> "loose",
      stdout |-> looseTable(fooRow)],
     [error |-> "none", rows |-> <<bareRow, halfRow, oddRow>>, layout |-> "aligned",
      stdout |-> alignedTable(<<bareRow, halfRow, oddRow>>)],
     [error |-> "connect", rows |-> <<>>, layout |-> "none", stdout |-> ""],
     [error |-> "none", rows |-> <<>>, layout |-> "none", stdout |-> ""] >>
  \o [col \in 1..5 |-> [error |-> "none", rows |-> <<fooRow>>, layout |-> "missing",
                         stdout |-> missingLabelTable(fooRow, col)]]

fooModel  == [name |-> "foo-model", digest |-> "abc123def4567890", size |-> bytesOf(1000000)]
barModel  == [name |-> "bar:latest", digest |-> "0123456789abcdef", size |-> bytesOf(5767168)]
longModel == [name |-> longName, digest |-> "feedfacecafebeef", size |-> <<0>>]

\* byte counts at and around the unit boundaries: 1, 1023, 1024, 1536,
\* 1024^2 - 1, 1024^4, 1024^5, 2 * 1024^5, and a null-like size
SizeCases ==
  << <<1>>, <<1023>>, <<1, 0>>, <<1, 512>>, <<1023, 1023>>, <<1, 0, 0, 0, 0>>,
     <<1, 0, 0, 0, 0, 0>>, <<2, 0, 0, 0, 0, 0>>, <<>> >>

sizedModels ==
  [k \in DOMAIN SizeCases |->
     [name |-> "sized:" \o toString(k), digest |-> "0123456789abcdef", size |-> SizeCases[k]]]

\* the ways ollama.list() settles
ListCases ==
  << [kind |-> "reject", models |-> <<>>],
     [kind |-> "malformed", models |-> <<>>],
     [kind |-> "ok", models |-> <<>>],
     [kind |-> "ok", models |-> <<fooModel>>],
     [kind |-> "ok", models |-> <<fooModel, barModel>>],
     [kind |-> "ok", models |-> <<longModel, fooModel>>],
     [kind |-> "ok", models |-> sizedModels] >>

\* the two tables below hold getOllamaPsInfo and getRunningModels applied to
\* every answer, computed once
psInfoOf == [k \in DOMAIN PsCases |-> getOllamaPsInfo(PsCases[k])]

modelsOf == [l \in DOMAIN ListCases |->
               [k \in DOMAIN PsCases |-> getRunningModels(ListCases[l], psInfoOf[k])]]

\* what the collaborators can answer in a run, by the run's environment:
\* "race" has MaxCycles cycles and few answers, "faults" two cycles, few
\* answers and up to MaxFaults throwing collaborator calls, "inputs" one
\* cycle and every answer; "sequential" is the run of SpecSequential, with
\* one answer of every collaborator; "live" is the timed run of SpecLive
Envs == {"race", "faults", "inputs"}
cyclesIn(e) == IF e = "race" THEN MaxCycles ELSE IF e \in {"faults", "live"} THEN 2 ELSE 1
faultsIn(e) == IF e \in {"faults", "live"} THEN MaxFaults ELSE 0
timeIn(e) == IF e = "live" THEN MaxLiveTime ELSE MaxTime
listCasesIn(e) ==
  IF e = "sequential"
  THEN {l \in DOMAIN ListCases : ListCases[l] = [kind |-> "ok", models |-> <<fooModel>>]}
  ELSE IF e # "inputs" THEN {l \in DOMAIN ListCases : ListCases[l] \in
                        {[kind |-> "reject", models |-> <<>>],
                         [kind |-> "ok", models |-> <<fooModel>>]}}
  ELSE DOMAIN ListCases
psCasesIn(e) ==
  IF e \in {"race", "sequential"}
  THEN {k \in DOMAIN PsCases : PsCases[k].error = "none" /\ PsCases[k].layout = "aligned"
                                 /\ PsCases[k].rows = <<fooRow>>}
  ELSE IF e = "live"
  THEN {k \in DOMAIN PsCases :
          /\ PsCases[k].error \in {"none", "timeout"}
          /\ PsCases[k].layout = "aligned" /\ PsCases[k].rows = <<fooRow>>}
  ELSE IF e = "faults"
  THEN {k \in DOMAIN PsCases :
          \/ PsCases[k].error = "exit"
          \/ PsCases[k].error = "none" /\ PsCases[k].layout = "aligned"
               /\ PsCases[k].rows = <<fooRow>>}
  ELSE DOMAIN PsCases

osCasesIn(e) == IF e \in {"sequential", "live"} THEN {1} ELSE {1, 2}

\* os.cpus() when a cycle starts sampling, and the readings 100 ms later
\* together with os.totalmem() / os.freemem(); only the differences of the
\* counters enter the result
startCpus ==
  << [user |-> 400, nice |-> 0, sys |-> 100, idle |-> 500, irq |-> 0],
     [user |-> 300, nice |-> 0, sys |-> 100, idle |-> 600, irq |-> 0] >>

OsCases ==
  << [cpus |-> << [user |-> 404, nice |-> 0, sys |-> 101, idle |-> 505, irq |-> 0],
                  [user |-> 310, nice |-> 0, sys |-> 100, idle |-> 600, irq |-> 0] >>,
      mem  |-> [total |-> 1073741824, free |-> 536346624]],
     [cpus |-> << [user |-> 401, nice |-> 0, sys |-> 101, idle |-> 501, irq |-> 0],
                  [user |-> 300, nice |-> 0, sys |-> 100, idle |-> 600, irq |-> 0] >>,
      mem  |-> [total |-> 1073741824, free |-> 759169024]] >>

\* a snapshot that lost a core between the two measurements
fewerCores == << [user |-> 404, nice |-> 0, sys |-> 101, idle |-> 505, irq |-> 0] >>

\* getCpuUsage applied to every reading, computed once
cpuInfoOf == [o \in DOMAIN OsCases |-> getCpuUsage(startCpus, OsCases[o].cpus)]
cpuInfoFewerCores == getCpuUsage(startCpus, fewerCores)

\* a core that came online between the two measurements
extraCore == [user |-> 9, nice |-> 0, sys |-> 1, idle |-> 0, irq |-> 0]
cpuInfoExtraCore ==
  [o \in DOMAIN OsCases |-> getCpuUsage(startCpus, Append(OsCases[o].cpus, extraCore))]

(***************************************************************************)
(* moment().format('HH:mm:ss') of the time t, in seconds.                  *)
(***************************************************************************)
pad2(n) == IF n < 10 THEN "0" \o toString(n) ELSE toString(n)

formatTime(t) ==
  pad2((t \div 3600) % 24) \o ":" \o pad2((t \div 60) % 60) \o ":" \o pad2(t % 60)

Cycles == 1..MaxCycles

noSample == [cpu |-> Zero, gpu |-> Zero, memory |-> Zero, label |-> ""]

\* an updateAll that has not been called yet
notStarted ==
  [ua      |-> "none",     \* updateAll: none, fetching, waiting, done, rejected, logged
   hc      |-> "none",     \* updateHistoryCharts: none, delay, done
   trigger |-> "none",     \* startup, timer or manual
   list    |-> 0,          \* how ollama.list() settled: an index of ListCases, 0 = pending
   ps      |-> 0,          \* what exec called back with: an index of PsCases, 0 = pending
   models  |-> <<>>,       \* what getRunningModels returned to this cycle
   pushed  |-> noSample,   \* what this cycle pushed to the history series
   pushes  |-> <<0, 0, 0>>,\* how many samples it appended to the cpu, gpu, memory series
   os      |-> 0,          \* the OS readings its sampler took: an index of OsCases
   threw   |-> {},         \* the collaborator faults of this cycle: the calls that
                           \* threw, and "extraCore" for a snapshot with a core more
   renders |-> 0,          \* calls of screen.render()
   at      |-> 0]          \* the time of the tick at or before its start

started(c) == cycles[c].trigger # "none"
inFlight(c) == cycles[c].ua \in {"fetching", "waiting"} \/ cycles[c].hc = "delay"
nStarted == Cardinality({c \in Cycles : started(c)})

\* index.js 74-93
initialSeries(t) ==
  [x |-> [i \in 1..historyLength |-> formatTime(t - (historyLength - 1 - (i - 1)))],
   y |-> [i \in 1..historyLength |-> Zero]]

\* index.js 381-383: the module body calls updateAll() and arms the interval
Init ==
  /\ currentModelData = <<>>
  /\ cpuHistoryData = initialSeries(0)
  /\ gpuHistoryData = initialSeries(0)
  /\ memoryHistoryData = initialSeries(0)
  /\ tableData = <<>>
  /\ cycles = [c \in Cycles |->
                 IF c = 1 THEN [notStarted EXCEPT !.ua = "fetching", !.trigger = "startup"]
                 ELSE notStarted]
  /\ now = 0
  /\ exited = FALSE
  /\ quitKey = FALSE
  /\ faults = 0
  /\ env \in Envs
  /\ pushLog = <<>>
  /\ seriesLog = <<>>
  /\ timerQueue = <<>>

(***************************************************************************)
(* History buffers (index.js 329-345).                                     *)
(***************************************************************************)
\* push without the shift: the series grow
pushNoShift(series, value, label) ==
  [x |-> Append(series.x, label), y |-> Append(series.y, value)]

\* push with pop() for shift(): the newest element is dropped, not the oldest
pushPopNewest(series, value, label) ==
  [x |-> Append(SubSeq(series.x, 1, Len(series.x) - 1), label),
   y |-> Append(SubSeq(series.y, 1, Len(series.y) - 1), value)]

\* y.shift(); y.push(value); x.shift(); x.push(label)
push(series, value, label) ==
  [x |-> Append(Tail(series.x), label), y |-> Append(Tail(series.y), value)]

\* the memory series pushed first
pushOrderMemoryFirst(fault) ==
  (IF fault # "cpuChart" THEN <<"memory">> ELSE <<>>) \o <<"cpu", "gpu">>

\* index.js 329-344: the series in the order their shift / push pairs run
pushOrder(fault) ==
  <<"cpu", "gpu">> \o (IF fault # "cpuChart" THEN <<"memory">> ELSE <<>>)

\* index.js 323-345 with systemInfo in hand; fault "cpuChart" is
\* cpuChart.setData throwing (line 339), which skips the memory series
pushHistory(c, systemInfo, fault) ==
  LET currentTime == formatTime(now)
      memoryToo   == fault # "cpuChart"
  IN  /\ cpuHistoryData' = push(cpuHistoryData, systemInfo.cpu, currentTime)
      /\ gpuHistoryData' = push(gpuHistoryData, systemInfo.gpu, currentTime)
      /\ memoryHistoryData' = IF memoryToo
                              THEN push(memoryHistoryData, systemInfo.memory, currentTime)
                              ELSE memoryHistoryData
      /\ pushLog' = Append(pushLog, c)
      /\ seriesLog' = seriesLog \o [k \in DOMAIN pushOrder(fault) |-> <<c, pushOrder(fault)[k]>>]

pushedBy(cyc, systemInfo, fault) ==
  [cyc EXCEPT !.hc = "done",
              !.pushed = [cpu |-> systemInfo.cpu, gpu |-> systemInfo.gpu,
                          memory |-> systemInfo.memory, label |-> formatTime(now)],
              !.pushes = <<1, 1, IF fault # "cpuChart" THEN 1 ELSE 0>>]

(***************************************************************************)
(* updateAll (index.js 353-365), after its awaits.                         *)
(***************************************************************************)
\* lines 360-364 once Promise.all has resolved: screen.render(), and when it
\* throws the catch block's screen.render(); a throw of that one rejects the
\* promise updateAll returned
renderAfterAll(cyc, fault) ==
  IF fault = "renderOnce" THEN [cyc EXCEPT !.ua = "done", !.renders = @ + 2]
  ELSE IF fault = "renderTwice" THEN [cyc EXCEPT !.ua = "rejected", !.renders = @ + 2]
  ELSE [cyc EXCEPT !.ua = "done", !.renders = @ + 1]

\* a catch block that only logs
renderInCatchForgotten(cyc) == [cyc EXCEPT !.ua = "done"]

\* lines 361-364 when Promise.all rejected: the catch block logs and renders
renderInCatch(cyc) == [cyc EXCEPT !.ua = "done", !.renders = @ + 1]

FetchFaults == {"none", "cpus", "table"}
TimerFaults ==
  {"none", "cpus", "cores", "extraCore", "cpuChart", "memoryChart", "renderOnce", "renderTwice"}

spend(fault) ==
  /\ fault # "none" => faults < faultsIn(env)
  /\ faults' = IF fault # "none" THEN faults + 1 ELSE faults

\* index.js 355-359, run when the later of ollama.list() and exec has settled:
\* getRunningModels returns, currentModelData is assigned, updateHistoryCharts
\* starts the CPU sampler and updateModelsList runs as a microtask.
\*   fault "cpus":  os.cpus() throws in the sampler's first snapshot, so
\*                  getSystemInfo returns zeros at once and the push is made
\*                  in this very callback
\*   fault "table": runningModelsList.setData throws, Promise.all rejects and
\*                  the catch block renders while the sampler is still waiting
fetchDone(c, cyc, fault) ==
  LET models == modelsOf[cyc.list][cyc.ps]
      got    == [cyc EXCEPT !.models = models,
                            !.threw = IF fault = "none" THEN @ ELSE @ \cup {fault}]
      zeros  == getSystemInfo("throw", OsCases[1].mem, models)
  IN  /\ spend(fault)
      /\ currentModelData' = models
      /\ tableData' = IF fault = "table" THEN tableData ELSE tableRows(models)
      /\ timerQueue' = IF fault = "cpus" THEN timerQueue ELSE Append(timerQueue, c)
      /\ IF fault = "cpus"
         THEN /\ pushHistory(c, zeros, "none")
              /\ cycles' = [cycles EXCEPT ![c] = renderAfterAll(pushedBy(got, zeros, "none"), "none")]
         ELSE /\ UNCHANGED <<cpuHistoryData, gpuHistoryData, memoryHistoryData, pushLog, seriesLog>>
              /\ cycles' = [cycles EXCEPT ![c] =
                              IF fault = "table"
                              THEN renderInCatch([got EXCEPT !.hc = "delay"])
                              ELSE [got EXCEPT !.hc = "delay", !.ua = "waiting"]]

(***************************************************************************)
(* Actions: one per event-loop callback.                                   *)
(***************************************************************************)
\* updateAll() up to its first await: getRunningModels issues ollama.list()
\* and exec('ollama ps')
startCycle(trigger, t) ==
  /\ ~exited
  /\ nStarted < cyclesIn(env)
  /\ cycles' = [cycles EXCEPT ![nStarted + 1] =
                  [notStarted EXCEPT !.ua = "fetching", !.trigger = trigger, !.at = t]]
  /\ UNCHANGED <<currentModelData, cpuHistoryData, gpuHistoryData, memoryHistoryData,
                 tableData, exited, quitKey, faults, env, pushLog, seriesLog,
                                timerQueue>>

\* exec of cycle c has not called back
execPending(c) == cycles[c].ua = "fetching" /\ cycles[c].ps = 0

\* exec without the timeout option: the command may run for any time
execNoTimeout(c) == cycles[c].at + ExecTimeoutSec + MaxLiveTime

\* index.js 171: the time by which exec has killed the command of cycle c and
\* called back (c began within the interval that starts at cycles[c].at)
execDeadline(c) == cycles[c].at + ExecTimeoutSec

\* timers fire in the order they fall due: the interval's tick at time t
\* comes after the timeout of every exec whose deadline is before t
tickDue(t) ==
  /\ t <= timeIn(env)
  /\ \A c \in Cycles : execPending(c) => t <= execDeadline(c)

\* index.js 383: setInterval(updateAll, 2000)
TimerFire ==
  /\ tickDue(now + IntervalSec)
  /\ now' = now + IntervalSec
  /\ startCycle("timer", now + IntervalSec)

\* index.js 376-379: the r key
ManualRefresh ==
  /\ UNCHANGED now
  /\ startCycle("manual", now)

\* ollama.list() settles (index.js 260-266)
ListSettle(c) ==
  \E k \in listCasesIn(env), fault \in FetchFaults :
    /\ ~exited
    /\ cycles[c].ua = "fetching"
    /\ cycles[c].list = 0
    /\ UNCHANGED <<now, exited, quitKey, env>>
    /\ LET cyc == [cycles[c] EXCEPT !.list = k]
       IN  IF cyc.ps # 0
           THEN fetchDone(c, cyc, fault)
           ELSE /\ fault = "none"
                /\ cycles' = [cycles EXCEPT ![c] = cyc]
                /\ UNCHANGED <<currentModelData, cpuHistoryData, gpuHistoryData,
                               memoryHistoryData, tableData, faults, pushLog, seriesLog,
                                timerQueue>>

\* exec calls back (index.js 171-252)
PsSettle(c) ==
  \E k \in psCasesIn(env), fault \in FetchFaults :
    /\ ~exited
    /\ cycles[c].ua = "fetching"
    /\ cycles[c].ps = 0
    /\ UNCHANGED <<now, exited, quitKey, env>>
    /\ LET cyc == [cycles[c] EXCEPT !.ps = k]
       IN  IF cyc.list # 0
           THEN fetchDone(c, cyc, fault)
           ELSE /\ fault = "none"
                /\ cycles' = [cycles EXCEPT ![c] = cyc]
                /\ UNCHANGED <<currentModelData, cpuHistoryData, gpuHistoryData,
                               memoryHistoryData, tableData, faults, pushLog, seriesLog,
                                timerQueue>>

\* the sampler's 100 ms timer fires (index.js 112): getCpuUsage, getSystemInfo
\* and updateHistoryCharts run to their ends, and updateAll renders if it was
\* still waiting for them.
\*   fault "cpus" / "cores": os.cpus() throws / returns fewer cores
\*   fault "extraCore": os.cpus() returns one core more; nothing throws
\*   fault "cpuChart" / "memoryChart": that chart's setData throws
\*   fault "renderOnce" / "renderTwice": screen.render() throws in the try
\*     block only / in the catch block as well
CpuTimer(c) ==
  \E o \in osCasesIn(env), fault \in TimerFaults :
    /\ ~exited
    /\ cycles[c].hc = "delay"
    /\ timerQueue # <<>> /\ c = Head(timerQueue)
    /\ timerQueue' = Tail(timerQueue)
    /\ fault \in {"renderOnce", "renderTwice"} => cycles[c].ua = "waiting"
    /\ spend(fault)
    /\ LET cpuInfo == IF fault = "cpus" THEN "throw"
                      ELSE IF fault = "cores" THEN cpuInfoFewerCores
                      ELSE IF fault = "extraCore" THEN cpuInfoExtraCore[o]
                      ELSE cpuInfoOf[o]
           systemInfo == getSystemInfo(cpuInfo, OsCases[o].mem, currentModelData)
           cyc == pushedBy([cycles[c] EXCEPT !.os = o,
                                             !.threw = IF fault = "none" THEN @
                                                       ELSE @ \cup {fault}],
                           systemInfo, fault)
       IN  /\ pushHistory(c, systemInfo, fault)
           /\ cycles' = [cycles EXCEPT ![c] =
                           IF cyc.ua = "waiting" THEN renderAfterAll(cyc, fault) ELSE cyc]
    /\ UNCHANGED <<currentModelData, tableData, now, exited, quitKey, env>>

\* no handler installed: Node ends the process on an unhandled rejection
UnhandledRejectionCrash(c) ==
  /\ ~exited
  /\ cycles[c].ua = "rejected"
  /\ exited' = TRUE
  /\ UNCHANGED <<currentModelData, cpuHistoryData, gpuHistoryData, memoryHistoryData,
                 tableData, cycles, now, quitKey, faults, env, pushLog, seriesLog,
                                timerQueue>>

\* index.js 393-395: the rejection of an updateAll promise is logged
UnhandledRejection(c) ==
  /\ ~exited
  /\ cycles[c].ua = "rejected"
  /\ cycles' = [cycles EXCEPT ![c].ua = "logged"]
  /\ UNCHANGED <<currentModelData, cpuHistoryData, gpuHistoryData, memoryHistoryData,
                 tableData, now, exited, quitKey, faults, env, pushLog, seriesLog,
                                timerQueue>>

\* index.js 369-374: escape, q or Ctrl-C
Quit ==
  /\ ~exited
  /\ quitKey' = TRUE
  /\ exited' = TRUE
  /\ UNCHANGED <<currentModelData, cpuHistoryData, gpuHistoryData, memoryHistoryData,
                 tableData, cycles, now, faults, env, pushLog, seriesLog,
                                timerQueue>>

Next ==
  \/ TimerFire
  \/ ManualRefresh
  \/ \E c \in Cycles : ListSettle(c)
  \/ \E c \in Cycles : PsSettle(c)
  \/ \E c \in Cycles : CpuTimer(c)
  \/ \E c \in Cycles : UnhandledRejection(c)
  \/ Quit

Spec == Init /\ [][Next]_vars

(***************************************************************************)
(* The timed run: two cycles are followed through MaxLiveTime seconds.     *)
(* The ticks after the second cycle's start belong to cycles that are not  *)
(* followed; they only move the clock.  Fairness: a pending timer fires    *)
(* (the sampler's delay, exec's timeout, a logged rejection), and the      *)
(* registry's answer arrives, which is the proviso of the progress claim.  *)
(***************************************************************************)
InitLive ==
  /\ currentModelData = <<>>
  /\ cpuHistoryData = initialSeries(0)
  /\ gpuHistoryData = initialSeries(0)
  /\ memoryHistoryData = initialSeries(0)
  /\ tableData = <<>>
  /\ cycles = [c \in Cycles |->
                 IF c = 1 THEN [notStarted EXCEPT !.ua = "fetching", !.trigger = "startup"]
                 ELSE notStarted]
  /\ now = 0
  /\ exited = FALSE
  /\ quitKey = FALSE
  /\ faults = 0
  /\ env = "live"
  /\ pushLog = <<>>
  /\ seriesLog = <<>>
  /\ timerQueue = <<>>

\* index.js 383: a tick of the interval whose cycle is not followed
TimerFireUntracked ==
  /\ ~exited
  /\ nStarted = cyclesIn(env)
  /\ tickDue(now + IntervalSec)
  /\ now' = now + IntervalSec
  /\ UNCHANGED <<currentModelData, cpuHistoryData, gpuHistoryData, memoryHistoryData,
                 tableData, cycles, exited, quitKey, faults, env, pushLog, seriesLog,
                 timerQueue>>

NextLive ==
  \/ TimerFire
  \/ TimerFireUntracked
  \/ ManualRefresh
  \/ \E c \in Cycles : ListSettle(c)
  \/ \E c \in Cycles : PsSettle(c)
  \/ \E c \in Cycles : CpuTimer(c)
  \/ \E c \in Cycles : UnhandledRejection(c)
  \/ Quit

\* the sampler's timer of cycle c fires.  Every step that takes c's timer
\* off the queue is a CpuTimer(c) step, and CpuTimer(c) is enabled whenever
\* that timer heads the queue.
SamplerFires(c) ==
  /\ ~exited
  /\ cycles[c].hc = "delay"
  /\ timerQueue # <<>> /\ c = Head(timerQueue)
  /\ timerQueue' = Tail(timerQueue)

SpecLive ==
  /\ InitLive
  /\ [][NextLive]_vars
  /\ WF_vars(TimerFire)
  /\ WF_vars(TimerFireUntracked)
  /\ \A c \in Cycles :
       /\ WF_vars(ListSettle(c))
       /\ WF_vars(PsSettle(c))
       /\ WF_timerQueue(SamplerFires(c))
       /\ WF_vars(UnhandledRejection(c))

(***************************************************************************)
(* The sequential run: every cycle ends within the interval, so each tick  *)
(* finds the cycle before it finished.  Its record is dropped and the      *)
(* cycle of the tick takes its place.                                      *)
(***************************************************************************)
InitSequential ==
  /\ currentModelData = <<>>
  /\ cpuHistoryData = initialSeries(0)
  /\ gpuHistoryData = initialSeries(0)
  /\ memoryHistoryData = initialSeries(0)
  /\ tableData = <<>>
  /\ cycles = [c \in Cycles |->
                 IF c = 1 THEN [notStarted EXCEPT !.ua = "fetching", !.trigger = "startup"]
                 ELSE notStarted]
  /\ now = 0
  /\ exited = FALSE
  /\ quitKey = FALSE
  /\ faults = 0
  /\ env = "sequential"
  /\ pushLog = <<>>
  /\ seriesLog = <<>>
  /\ timerQueue = <<>>

\* index.js 383: setInterval(updateAll, 2000), the cycle before it finished
TimerFireIdle ==
  /\ ~exited
  /\ cycles[1].ua = "done" /\ cycles[1].hc = "done"
  /\ Len(pushLog) < MaxSequentialCycles
  /\ now' = now + IntervalSec
  /\ cycles' = [cycles EXCEPT ![1] =
                  [notStarted EXCEPT !.ua = "fetching", !.trigger = "timer"]]
  /\ UNCHANGED <<currentModelData, cpuHistoryData, gpuHistoryData, memoryHistoryData,
                 tableData, exited, quitKey, faults, env, pushLog, seriesLog,
                                timerQueue>>

NextSequential ==
  \/ TimerFireIdle
  \/ ListSettle(1)
  \/ PsSettle(1)
  \/ CpuTimer(1)
  \/ Quit

SpecSequential == InitSequential /\ [][NextSequential]_vars
(***************************************************************************)
(* Properties.                                                             *)
(***************************************************************************)
settled(c) == started(c) /\ ~inFlight(c)

lengthsOk ==
  \A series \in {cpuHistoryData, gpuHistoryData, memoryHistoryData} :
    Len(series.y) = historyLength /\ Len(series.x) = historyLength

\* a cycle whose body has not yet issued its redraw
running(c) == cycles[c].ua \in {"fetching", "waiting"}

\* C1: at most one refresh cycle is in flight at any time: while a cycle has
\* not yet issued its redraw, no second cycle body is running.
C1_NoOverlap ==
  \A c, d \in Cycles : (running(c) /\ running(d)) => c = d

\* the series that results from `series` by the pushes of cycles c..n, in
\* trigger order
RECURSIVE inTriggerOrder(_, _, _, _)
inTriggerOrder(series, metric, c, n) ==
  IF c > n THEN series
  ELSE inTriggerOrder(push(series, cycles[c].pushed[metric], cycles[c].pushed.label),
                      metric, c + 1, n)

\* C2: when two cycles overlapped and both have pushed, the three history
\* series hold the first-triggered cycle's push followed by the
\* second-triggered cycle's push, whatever order their fetches completed in.
C2_TriggerOrder ==
  (nStarted >= 2 /\ faults = 0 /\ \A c \in Cycles : started(c) => cycles[c].hc = "done")
    => /\ cpuHistoryData = inTriggerOrder(initialSeries(0), "cpu", 1, nStarted)
       /\ gpuHistoryData = inTriggerOrder(initialSeries(0), "gpu", 1, nStarted)
       /\ memoryHistoryData = inTriggerOrder(initialSeries(0), "memory", 1, nStarted)

\* C3: in every reachable state each of the CPU, GPU and memory series has
\* values.length = labels.length = historyLength.
C3_Lengths ==
  /\ Len(cpuHistoryData.y) = historyLength /\ Len(cpuHistoryData.x) = historyLength
  /\ Len(gpuHistoryData.y) = historyLength /\ Len(gpuHistoryData.x) = historyLength
  /\ Len(memoryHistoryData.y) = historyLength /\ Len(memoryHistoryData.x) = historyLength

\* two cycles have pushed, one of them after a collaborator call threw
C3_Witness ==
  /\ Len(pushLog) >= 2
  /\ \E c \in Cycles : cycles[c].threw # {} /\ cycles[c].hc = "done"
  /\ C3_Lengths

\* new is old with index 0 removed and value / label appended
shifted(old, new, value, label) ==
  /\ Len(new.y) = Len(old.y)
  /\ Len(new.x) = Len(old.x)
  /\ \A i \in 1..(Len(old.y) - 1) : new.y[i] = old.y[i + 1]
  /\ \A i \in 1..(Len(old.x) - 1) : new.x[i] = old.x[i + 1]
  /\ new.y[Len(new.y)] = value
  /\ new.x[Len(new.x)] = label

\* C4: every history push of value v with label t turns a series into the
\* old sequences with index 0 removed and v / t appended; the surviving
\* elements keep their values and move down one index.  A series changes in
\* no other way.
C4_PushShape ==
  [][/\ \A c \in Cycles :
          LET before == cycles[c].pushes
              after  == cycles'[c].pushes
              p      == cycles'[c].pushed
          IN  /\ after[1] > before[1] => shifted(cpuHistoryData, cpuHistoryData', p.cpu, p.label)
              /\ after[2] > before[2] => shifted(gpuHistoryData, gpuHistoryData', p.gpu, p.label)
              /\ after[3] > before[3]
                   => shifted(memoryHistoryData, memoryHistoryData', p.memory, p.label)
     /\ (\A c \in Cycles : cycles'[c].pushes[1] = cycles[c].pushes[1])
          => cpuHistoryData' = cpuHistoryData
     /\ (\A c \in Cycles : cycles'[c].pushes[2] = cycles[c].pushes[2])
          => gpuHistoryData' = gpuHistoryData
     /\ (\A c \in Cycles : cycles'[c].pushes[3] = cycles[c].pushes[3])
          => memoryHistoryData' = memoryHistoryData]_vars

\* a push has moved the newest initial sample down one index
C4_Witness ==
  /\ Len(pushLog) = 1
  /\ cpuHistoryData.y[historyLength] # Zero
  /\ cpuHistoryData.x[historyLength - 1] = formatTime(0)
  /\ memoryHistoryData.y[historyLength] # Zero
  /\ memoryHistoryData.x[historyLength - 1] = formatTime(0)

\* a step of the cycle failed: the registry call, the external command, the
\* sampler, a chart update or the table update
failedStep(c) ==
  \/ cycles[c].list # 0 /\ ListCases[cycles[c].list].kind # "ok"
  \/ cycles[c].ps # 0 /\ PsCases[cycles[c].ps].error # "none"
  \/ cycles[c].threw \cap {"cpus", "cores", "cpuChart", "memoryChart", "table"} # {}

renderThrew(c) == cycles[c].threw \cap {"renderOnce", "renderTwice"} # {}

\* C5: when a step of a cycle throws or rejects (model fetch, system-info
\* fetch, history update, table update) the failure does not leave
\* updateAll, updateAll ends having issued a redraw, the process keeps
\* running and the history series keep their length.
C5_FailureAbsorbed ==
  \A c \in Cycles :
    (failedStep(c) /\ ~renderThrew(c))
      => /\ cycles[c].ua \notin {"rejected", "logged"}
         /\ settled(c) => cycles[c].ua = "done"
         /\ cycles[c].ua = "done" => cycles[c].renders >= 1
         /\ exited => quitKey
         /\ C3_Lengths

\* the table update threw, the redraw was issued and the sampler's push made
C5_Witness ==
  \E c \in Cycles :
    /\ "table" \in cycles[c].threw
    /\ settled(c)
    /\ cycles[c].renders = 1
    /\ cycles[c].pushes = <<1, 1, 1>>
    /\ ~exited

\* C7: the process terminates only by the quit key; no failure of a cycle
\* leads to a terminated state.
C7_OnlyQuitTerminates == exited => quitKey

\* a rejected updateAll promise was logged and the process is running
C7_Witness ==
  /\ \E c \in Cycles : cycles[c].ua = "logged" /\ failedStep(c)
  /\ ~exited

fetched(c) == cycles[c].list # 0 /\ cycles[c].ps # 0

\* C6: a cycle whose ollama.list() call rejects runs to completion: its model
\* list is empty, each history series advances by exactly one sample taken
\* from the whole-machine CPU and memory readings, and the GPU sample is 0.
C6_RejectedRegistry ==
  \A c \in Cycles :
    (/\ cycles[c].list # 0
     /\ ListCases[cycles[c].list].kind = "reject"
     /\ faults = 0
     /\ cycles[c].hc = "done")
      => /\ cycles[c].models = <<>>
         /\ cycles[c].pushes = <<1, 1, 1>>
         /\ cycles[c].pushed.cpu = cpuInfoOf[cycles[c].os]
         /\ cycles[c].pushed.memory = Rat(usedMemInMB(OsCases[cycles[c].os].mem), 1)
         /\ cycles[c].pushed.gpu = Zero
         /\ settled(c) => cycles[c].ua = "done"

\* C8: for every model of a successful registry response there is exactly
\* one record, with isRunning true iff the model's name is a key of the
\* parser's mapping of the same cycle; a running record carries the parser's
\* committed memory, cpu and gpu verbatim, any other '0 B', '0%' and '0%'.
C8_Merge ==
  \A c \in Cycles :
    (fetched(c) /\ ListCases[cycles[c].list].kind = "ok")
      => LET registry == ListCases[cycles[c].list].models
             parsed   == psInfoOf[cycles[c].ps]
             out      == cycles[c].models
         IN  /\ Len(out) = Len(registry)
             /\ \A i \in DOMAIN registry :
                  LET key == registry[i].name
                  IN  /\ out[i].isRunning <=> key \in DOMAIN parsed
                      /\ out[i].isRunning =>
                           /\ out[i].usedMem = parsed[key].committedMem
                           /\ out[i].cpu = parsed[key].cpu
                           /\ out[i].gpu = parsed[key].gpu
                      /\ ~out[i].isRunning =>
                           /\ out[i].usedMem = "0 B"
                           /\ out[i].cpu = "0%"
                           /\ out[i].gpu = "0%"

\* a list with a running model whose name is longer than the display width,
\* and one that is not running
C8_Witness ==
  \E c \in Cycles :
    /\ fetched(c)
    /\ Len(cycles[c].models) = 2
    /\ cycles[c].models[1].isRunning
    /\ cycles[c].models[1].usedMem = "980 MB"
    /\ Len(ListCases[cycles[c].list].models[1].name) > NameWidth
    /\ ~cycles[c].models[2].isRunning

\* C9: the model list a cycle produces depends only on that cycle's registry
\* response and parser mapping: it has one record per model of this
\* response, under that model's name, and a model absent from this cycle's
\* parser mapping is not running whatever the cycle before recorded.
C9_Rebuilt ==
  /\ \A c \in Cycles :
       fetched(c)
         => LET registry == IF ListCases[cycles[c].list].kind = "ok"
                            THEN ListCases[cycles[c].list].models ELSE <<>>
                parsed   == psInfoOf[cycles[c].ps]
                out      == cycles[c].models
            IN  /\ Len(out) = Len(registry)
                /\ \A i \in DOMAIN registry :
                     /\ out[i].name = substring(registry[i].name, 0, NameWidth)
                     /\ registry[i].name \notin DOMAIN parsed
                          => (~out[i].isRunning /\ out[i].usedMem = "0 B")
  /\ currentModelData \in {<<>>} \cup {cycles[c].models : c \in Cycles}

\* the first cycle recorded foo-model as running; the next one, whose parser
\* mapping is empty, records it as not running
C9_Witness ==
  /\ pushLog = <<1>>
  /\ Len(cycles[1].models) = 1 /\ cycles[1].models[1].isRunning
  /\ fetched(2)
  /\ psInfoOf[cycles[2].ps] = emptyModelData
  /\ Len(cycles[2].models) = 1 /\ ~cycles[2].models[1].isRunning
  /\ cycles[2].models[1].name = cycles[1].models[1].name
  /\ currentModelData = cycles[2].models

\* what the claim expects of a table printed from the cells `rows`
expectedOf(rows) ==
  [name \in {rows[i][1] : i \in DOMAIN rows} |->
     LET i == CHOOSE j \in DOMAIN rows :
                /\ rows[j][1] = name
                /\ \A k \in DOMAIN rows : rows[k][1] = name => k <= j
         usage == processorUsage(rows[i][4])
     IN  [committedMem |-> rows[i][3], cpu |-> usage.cpu, gpu |-> usage.gpu]]

specExample == "NAME ID SIZE PROCESSOR UNTIL\nfoo-model   abc123   4.2 GB   100% GPU   5m"

fooEntry == [committedMem |-> "4.2 GB", gpu |-> "100%", cpu |-> "0%"]

\* C10 as stated: whenever the header holds the five labels and the cells of
\* a row are separated by runs of spaces, the parser maps the row's complete
\* name to its size text and the percentages of its processor descriptor; for
\* the spec's example text the result is { foo-model: { '4.2 GB', '100%', '0%' } }.
C10_AnySpacing ==
  \A c \in Cycles :
    (/\ cycles[c].ps # 0
     /\ PsCases[cycles[c].ps].error = "none"
     /\ PsCases[cycles[c].ps].layout \in {"aligned", "loose"}
     /\ PsCases[cycles[c].ps].rows # <<>>)
      => /\ psInfoOf[cycles[c].ps] = expectedOf(PsCases[cycles[c].ps].rows)
         /\ PsCases[cycles[c].ps].stdout = specExample
              => psInfoOf[cycles[c].ps] = [name \in {"foo-model"} |-> fooEntry]

\* C10 amended: the same holds when every cell of a row starts at the column
\* of its header label; for the spec's example text, whose cells do not, the
\* result is { foo-m: { 'l   a', '0%', '0%' } }.
C10_AlignedColumns ==
  \A c \in Cycles :
    (cycles[c].ps # 0 /\ PsCases[cycles[c].ps].error = "none")
      => /\ (PsCases[cycles[c].ps].layout = "aligned" /\ PsCases[cycles[c].ps].rows # <<>>)
              => psInfoOf[cycles[c].ps] = expectedOf(PsCases[cycles[c].ps].rows)
         /\ (PsCases[cycles[c].ps].layout = "aligned" /\ PsCases[cycles[c].ps].rows = <<fooRow>>)
              => psInfoOf[cycles[c].ps] = [name \in {"foo-model"} |-> fooEntry]
         /\ PsCases[cycles[c].ps].stdout = specExample
              => psInfoOf[cycles[c].ps] =
                   [name \in {"foo-m"} |-> [committedMem |-> "l   a", gpu |-> "0%", cpu |-> "0%"]]

\* the command printed the example row in aligned columns and the parser
\* mapped foo-model
C10_Witness ==
  \E c \in Cycles :
    /\ cycles[c].ps # 0
    /\ PsCases[cycles[c].ps].error = "none"
    /\ PsCases[cycles[c].ps].layout = "aligned"
    /\ PsCases[cycles[c].ps].rows = <<fooRow>>
    /\ DOMAIN psInfoOf[cycles[c].ps] = {"foo-model"}

\* the wrapper's result is a mapping from names to usage records
isMapping(modelData) ==
  \A name \in DOMAIN modelData :
    DOMAIN modelData[name] = {"committedMem", "cpu", "gpu"}

\* C11: getOllamaPsInfo always resolves, to a mapping, and never rejects or
\* throws: once exec has called back the cycle goes on.  The mapping is empty
\* whenever exec reported an error (non-zero exit, timeout, connection
\* failure), the output has fewer than two lines, or the header lacks one of
\* the labels NAME, ID, SIZE, PROCESSOR, UNTIL.
C11_EmptyOnFailure ==
  \A c \in Cycles :
    cycles[c].ps # 0
      => LET result == PsCases[cycles[c].ps]
         IN  /\ isMapping(psInfoOf[cycles[c].ps])
             /\ cycles[c].list # 0 => cycles[c].ua # "fetching"
             /\ (\/ result.error # "none"
                 \/ result.rows = <<>>
                 \/ result.layout = "missing")
                  => psInfoOf[cycles[c].ps] = emptyModelData

\* the command timed out after printing a table with a row: the mapping is
\* empty and the cycle went on to its sampler
C11_Witness ==
  \E c \in Cycles :
    /\ cycles[c].ps # 0
    /\ PsCases[cycles[c].ps].error = "timeout"
    /\ PsCases[cycles[c].ps].rows = <<fooRow>>
    /\ psInfoOf[cycles[c].ps] = emptyModelData
    /\ cycles[c].hc = "delay"

\* the unit a formatted size names: the text after its blank
unitOf(text) == substring(text, indexOf(text, " ") + 1, Len(text))

\* C12: for every byte count b >= 1 formatSize(b) names the unit of index
\* floor(log_1024(b)), which is one of B, KB, MB, GB, TB; formatSize(0) is
\* '0 B' and a null-like size gives '-'.
C12_UnitOfSize ==
  \A c \in Cycles :
    (fetched(c) /\ ListCases[cycles[c].list].kind = "ok")
      => \A i \in DOMAIN cycles[c].models :
           LET b    == ListCases[cycles[c].list].models[i].size
               text == cycles[c].models[i].diskSize
           IN  /\ b = <<>> => text = "-"
               /\ b = <<0>> => text = "0 B"
               /\ (b # <<>> /\ b # <<0>>)
                    => /\ unitOf(text) \in {"B", "KB", "MB", "GB", "TB"}
                       /\ unitOf(text) = sizes[Len(b)]

\* in the sequential run the k-th push is made by the cycle of tick k - 1
labelOfPush(k) == formatTime(IntervalSec * (k - 1))

holds(series, label, value) ==
  \E j \in DOMAIN series.x : series.x[j] = label /\ series.y[j] = value

\* C13: the CPU and memory history series each hold the last 100 data
\* points: after 100 or more completed cycles the 100 most recent samples of
\* each metric are all still present in its series.
C13_LastHundred ==
  Len(pushLog) >= documentedLength
    => \A k \in (Len(pushLog) - documentedLength + 1)..Len(pushLog) :
         /\ holds(cpuHistoryData, labelOfPush(k), cpuInfoOf[1])
         /\ holds(memoryHistoryData, labelOfPush(k), Rat(usedMemInMB(OsCases[1].mem), 1))

\* the places of seriesLog at which cycle c pushed
pushesOf(c) == {k \in DOMAIN seriesLog : seriesLog[k][1] = c}

C15_GpuOfOwnList ==
  \A c \in Cycles :
    (cycles[c].hc = "done" /\ cycles[c].threw = {} /\ faults = 0)
      => cycles[c].pushed.gpu = gpuUsagePercent(cycles[c].models)

\* the percentages written in a processor descriptor: every run of digits
\* that a percent sign follows
percentagesIn(processor) ==
  {substring(processor, i, digitRunEnd(processor, i)) \o "%" :
     i \in {j \in 0..(Len(processor) - 1) :
              /\ isDigit(charAt(processor, j))
              /\ ~isDigit(charAt(processor, j - 1))
              /\ charAt(processor, digitRunEnd(processor, j)) = "%"}}

\* the percentage reported for a descriptor that names the processor: one
\* of those written in it, 100% when none is written
reportedFrom(usage, processor) ==
  IF percentagesIn(processor) = {} THEN usage = "100%"
  ELSE usage \in percentagesIn(processor)

\* C16: for every parsed data row a processor descriptor naming a GPU gives
\* the GPU percentage written in the descriptor (100% when it holds no
\* number) and CPU 0%; one naming a CPU gives the CPU percentage likewise and
\* GPU 0%; any other gives 0% / 0%.  A descriptor that carries a GPU
\* percentage is never reported as 100% unless that is the number written.
C16_ProcessorDescriptor ==
  \A c \in Cycles :
    (/\ cycles[c].ps # 0
     /\ PsCases[cycles[c].ps].error = "none"
     /\ PsCases[cycles[c].ps].layout = "aligned")
      => \A i \in DOMAIN PsCases[cycles[c].ps].rows :
           LET row       == PsCases[cycles[c].ps].rows[i]
               processor == row[4]
               entry     == psInfoOf[cycles[c].ps][row[1]]
           IN  IF includes(processor, "GPU")
               THEN reportedFrom(entry.gpu, processor) /\ entry.cpu = "0%"
               ELSE IF includes(processor, "CPU")
               THEN reportedFrom(entry.cpu, processor) /\ entry.gpu = "0%"
               ELSE entry.cpu = "0%" /\ entry.gpu = "0%"

\* the sampler of cycle c failed: os.cpus() threw, or its second snapshot
\* lacked a core of the first
samplerFailed(c) == cycles[c].threw \cap {"cpus", "cores"} # {}

\* what the claim promises of a cycle c whose sampler failed
absorbedAsZero(c) ==
  /\ cycles[c].pushes = <<1, 1, 1>>
  /\ cycles[c].pushed.cpu = Zero
  /\ cycles[c].ua \notin {"rejected", "logged"}
  /\ settled(c) => (cycles[c].ua = "done" /\ cycles[c].renders = 1)

\* C17 as stated: if the CPU sampler fails, the OS counter source throwing
\* or returning inconsistent core lists between the two snapshots, the fault
\* does not reach updateAll: the cycle pushes exactly one sample to each
\* series, with CPU value 0, and issues its redraw.
C17_AnyInconsistency ==
  \A c \in Cycles :
    (cycles[c].hc = "done" /\ (samplerFailed(c) \/ "extraCore" \in cycles[c].threw))
      => absorbedAsZero(c)

\* C17 amended: the same holds when the OS counter source throws or the
\* second snapshot has fewer cores than the first.  A second snapshot with
\* more cores is no failure: the cores beyond the first snapshot's are
\* ignored and the CPU value pushed is the sampler's reading.
C17_SamplerFailure ==
  \A c \in Cycles :
    cycles[c].hc = "done"
      => /\ samplerFailed(c) => absorbedAsZero(c)
         /\ "extraCore" \in cycles[c].threw
              => /\ cycles[c].pushes = <<1, 1, 1>>
                 /\ cycles[c].pushed.cpu = cpuInfoOf[cycles[c].os]
                 /\ cycles[c].pushed.cpu # Zero

\* the second snapshot lacked a core: the cycle pushed zeros, although its
\* own list holds a model on the GPU, and rendered
C17_Witness ==
  \E c \in Cycles :
    /\ "cores" \in cycles[c].threw
    /\ settled(c)
    /\ cycles[c].pushes = <<1, 1, 1>>
    /\ cycles[c].pushed.cpu = Zero
    /\ cycles[c].pushed.gpu = Zero
    /\ gpuUsagePercent(cycles[c].models) # Zero
    /\ cycles[c].renders = 1

\* C19: once every cycle in flight has finished, the current model list and
\* the rows handed to the table are the result of the most recently
\* triggered cycle: a cycle triggered earlier whose fetch completed later
\* does not overwrite them with older data.
C19_LatestTriggeredWins ==
  (faults = 0 /\ \A c \in Cycles : started(c) => settled(c))
    => /\ currentModelData = cycles[nStarted].models
       /\ tableData = tableRows(cycles[nStarted].models)

\* the number of pushes a series has received
pushCount(metric) == Cardinality({k \in DOMAIN seriesLog : seriesLog[k][2] = metric})

\* C20: the three history series advance in lockstep: in every state between
\* two event-loop callbacks the CPU, GPU and memory series have received the
\* same number of pushes and hold the same labels.
C20_Lockstep ==
  /\ pushCount("cpu") = pushCount("gpu")
  /\ pushCount("gpu") = pushCount("memory")
  /\ cpuHistoryData.x = gpuHistoryData.x
  /\ gpuHistoryData.x = memoryHistoryData.x

\* the redraws of a cycle that has finished: one, or two when screen.render()
\* threw and the catch block called it again
redrawsOf(c) == IF renderThrew(c) THEN 2 ELSE 1

\* the last tick of the interval within the time that is followed
lastTick == (timeIn("live") \div IntervalSec) * IntervalSec

=============================================================================
